---------------------------- MODULE Spec2Model ----------------------------
(***************************************************************************)
(* Model of manifest.Build (src/manifest/build.go): the orchestration of   *)
(* docker build / tag / pull commands for the services of a manifest.      *)
(*                                                                         *)
(* Strings are sequences of chunks.  The delimiters the code looks at      *)
(* ("/", ":", "=", " ") are always chunks of their own, so strings.Split,  *)
(* strings.Contains, strings.Fields and strings.SplitN can be computed on  *)
(* the sequence.  A command is the sequence of its argument strings.       *)
(***************************************************************************)
EXTENDS Integers, Sequences, FiniteSets, TLC

\* ------------------------------------------------------------------ bounds

\* longest run-ordered service list
MaxServices == 3
\* most failures (of commands or filesystem calls) injected in one run
MaxFaults == 1
\* longest image reference (in chunks) of the normalization specification
MaxRefLen == 5
\* levels of directories below the one copyDir is called on
MaxDepth == 1

\* ----------------------------------------------------------------- strings

Empty == <<>>

SeqsUpTo(S, n) == UNION {[1..k -> S] : k \in 0..n}

Range(s) == {s[i] : i \in 1..Len(s)}

\* strings.Contains(s, c) for a one-chunk c
Contains(s, c) == \E i \in 1..Len(s) : s[i] = c

\* ASCII order of the chunks that occur in argument names
Alphabet == <<"=", "K", "T", "U">>

Ord(c) == CHOOSE i \in 1..Len(Alphabet) : Alphabet[i] = c

\* a < b in the bytewise lexicographic order sort.Strings uses
RECURSIVE StrLess(_, _)
StrLess(a, b) ==
    IF b = Empty THEN FALSE
    ELSE IF a = Empty THEN TRUE
    ELSE IF Ord(Head(a)) # Ord(Head(b)) THEN Ord(Head(a)) < Ord(Head(b))
    ELSE StrLess(Tail(a), Tail(b))

\* sort.Strings over the keys of a map: least key first
RECURSIVE SortStringsWrong(_)
SortStringsWrong(S) ==
    IF S = {} THEN <<>>
    ELSE LET m == CHOOSE x \in S : \A y \in S \ {x} : StrLess(y, x)
         IN  <<m>> \o SortStringsWrong(S \ {m})

RECURSIVE SortStrings(_)
SortStrings(S) ==
    IF S = {} THEN <<>>
    ELSE LET m == CHOOSE x \in S : \A y \in S \ {x} : StrLess(x, y)
         IN  <<m>> \o SortStrings(S \ {m})

\* the element of strings.Split(s, "/") with the highest index
RECURSIVE LastSegment(_)
LastSegment(s) ==
    IF s = Empty THEN Empty
    ELSE IF s[Len(s)] = "/" THEN Empty
    ELSE LastSegment(SubSeq(s, 1, Len(s) - 1)) \o <<s[Len(s)]>>

Latest == <<":", "latest">>

\* a bug: looks for ":" in the whole reference, not in its last segment
NormalizeWhole(image) ==
    IF ~Contains(image, ":") THEN image \o Latest ELSE image

\* make the implicit :latest explicit
Normalize(image) ==
    IF ~Contains(LastSegment(image), ":") THEN image \o Latest ELSE image

coalesce(a, b) == IF a # Empty THEN a ELSE b

\* filepath.Join of two elements (Clean drops a "." element)
Join(a, b) == IF b = <<".">> THEN a ELSE a \o <<"/">> \o b


\* ------------------------------------------------- the build-argument scanner

\* strings.Fields: the maximal runs of non-space chunks
RECURSIVE FieldsFrom(_, _, _)
FieldsFrom(s, cur, acc) ==
    IF s = Empty
    THEN IF cur = Empty THEN acc ELSE Append(acc, cur)
    ELSE IF Head(s) = " "
         THEN FieldsFrom(Tail(s), Empty, IF cur = Empty THEN acc ELSE Append(acc, cur))
         ELSE FieldsFrom(Tail(s), Append(cur, Head(s)), acc)

Fields(s) == FieldsFrom(s, Empty, <<>>)

\* strings.SplitN(s, "=", 2)[0]: the text before the first "="
RECURSIVE BeforeEq(_)
BeforeEq(s) ==
    IF s = Empty \/ Head(s) = "=" THEN Empty
    ELSE <<Head(s)>> \o BeforeEq(Tail(s))

\* a chunk that stands for a run of bufio.MaxScanTokenSize (64 KiB) bytes
\* without a space, a "=" or a line end
LongRun == "x * 65536"

\* The scanner's loop over the lines of a file that was read.  parts[1] of a
\* line holding the single token ARG is an index out of range: a panic.  A
\* line that does not fit the scanner's buffer makes Scan return false, which
\* ends the loop as the end of the file does: scanner.Err() is not looked at.
RECURSIVE ScanLines(_, _)
ScanLines(lines, args) ==
    IF lines = <<>> THEN [panic |-> FALSE, args |-> args]
    ELSE IF Contains(Head(lines), LongRun) THEN [panic |-> FALSE, args |-> args]
    ELSE LET parts == Fields(Head(lines))
         IN  IF Len(parts) < 1 THEN ScanLines(Tail(lines), args)
             ELSE IF parts[1] = <<"ARG">>
                  THEN IF Len(parts) < 2
                       THEN [panic |-> TRUE, args |-> args]
                       ELSE ScanLines(Tail(lines), Append(args, BeforeEq(parts[2])))
                  ELSE ScanLines(Tail(lines), args)

\* buildArgs(dockerfile); readOk is whether ioutil.ReadFile succeeded
buildArgs(lines, readOk) ==
    IF ~readOk THEN [err |-> TRUE, panic |-> FALSE, args |-> <<>>]
    ELSE LET r == ScanLines(lines, <<>>)
         IN  [err |-> FALSE, panic |-> r.panic, args |-> r.args]

\* ------------------------------------------------------- services and options

appName == <<"app">>
dir == <<"dir">>

\* Service.Tag(appName): a function of the application and the service name
Tag(service) == appName \o <<"/">> \o service.Name

\* Build.Hash(): an opaque digest of the build inputs
Hash(build) == <<build.Digest>>

NoArgs == <<>>

BuildOf(context, dockerfile, args, digest) ==
    [Context |-> context, Dockerfile |-> dockerfile, Args |-> args, Digest |-> digest]

NoBuild == BuildOf(Empty, Empty, NoArgs, "h0")

\* a service without its name
ImageSvc(image) == [Image |-> image, Dockerfile |-> Empty, Build |-> NoBuild]
BuildSvc(dockerfile, build) == [Image |-> Empty, Dockerfile |-> dockerfile, Build |-> build]

Names == <<"web", "api", "db", "job", "aux">>

\* the run-ordered list made of the bodies in seq, named by position
Named(seq) ==
    [i \in 1..Len(seq) |->
        [Name |-> <<Names[i]>>, Image |-> seq[i].Image,
         Dockerfile |-> seq[i].Dockerfile, Build |-> seq[i].Build]]

Options(cache, cacheDir, environment) ==
    [Cache |-> cache, CacheDir |-> cacheDir, Environment |-> environment]

NilErr == [set |-> FALSE, prefix |-> "", cause |-> ""]
Err(prefix, cause) == [set |-> TRUE, prefix |-> prefix, cause |-> cause]

\* ------------------------------------------------------------ trees of files

EntryNames == {"f", "g", "sub"}

\* a node of a tree: a directory, a regular file, a symbolic link, or nothing
NoNode == [kind |-> "none", data |-> "", mode |-> "", mtime |-> "", to |-> "", entries |-> <<>>]
File(data, mode, mtime) ==
    [kind |-> "file", data |-> data, mode |-> mode, mtime |-> mtime, to |-> "", entries |-> <<>>]
Link(to) ==
    [kind |-> "link", data |-> "", mode |-> "", mtime |-> "", to |-> to, entries |-> <<>>]
Dir(mode, f, g, sub) ==
    [kind |-> "dir", data |-> "", mode |-> mode, mtime |-> "", to |-> "",
     entries |-> [n \in EntryNames |-> IF n = "f" THEN f ELSE IF n = "g" THEN g ELSE sub]]

\* no call of copyDir yet
NoCall == [made |-> FALSE, err |-> "", failAt |-> 0, before |-> <<>>]

\* ------------------------------------------------------------------- state

VARIABLES
    services,    \* the manifest's services in run order (runOrder's result)
    opts,        \* BuildOptions
    files,       \* the build-definition files: path -> lines
    store,       \* the cache store: hash -> content of <CacheDir>/<hash>, Empty if absent
    staging,     \* content of <dir>/.cache/build, Empty if absent
    pc,          \* "start", "run", "done" (returned) or "panic"
    pulls,       \* normalized image reference -> destination tags
    builds,      \* the services to build, in run order
    bi,          \* index in builds of the next service of the build loop
    buildCache,  \* hash -> tag of the service built with it
    pulled,      \* the keys of pulls the pull loop has visited
    log,         \* the external commands issued, in order, with their outcomes
    sink,        \* the lines Build itself sent to the stream s
    err,         \* the error returned
    faults,      \* failures injected so far
    fs,          \* per build, what its filesystem calls found and how they ended
    disk,        \* the directory trees copyDir works on: path -> node
    call         \* the call of copyDir that was made: its error, the disk before it

vars == <<services, opts, files, store, staging, pc, pulls, builds, bi,
          buildCache, pulled, log, sink, err, faults, fs, disk, call>>

inputs == <<services, opts, files>>

\* what Build leaves alone: the trees of the specification of copyDir
trees == <<disk, call>>

\* what copyDir leaves alone: the run of Build
run == <<services, opts, files, store, staging, pc, pulls, builds, bi,
         buildCache, pulled, log, sink, err, faults, fs>>

\* Docker(args...): the docker command line
Docker(args) == << <<"docker">> >> \o args

\* an entry of log: the docker arguments, whether the command succeeded, whether
\* it printed anything, and the service or image whose processing issued it
Cmd(args, ok, out, who) == [args |-> args, ok |-> ok, out |-> out, who |-> who]

Hashes == { <<"h1">>, <<"h2">> }

\* the cache store and the staging directory before the run: nothing, or an
\* entry for h1 alone and a staging directory left by an earlier run
NoCache == [store |-> [h \in Hashes |-> Empty], staging |-> Empty]
Kept == [store |-> [h \in Hashes |-> IF h = <<"h1">> THEN <<"old">> ELSE Empty],
         staging |-> <<"stale">>]

InitOf(manifests, optionSet, fileSet, caches) ==
    /\ services \in manifests
    /\ opts \in optionSet
    /\ files \in fileSet
    /\ \E c \in caches :
        /\ store = c.store
        /\ staging = c.staging
        /\ opts.CacheDir = Empty <=> c = NoCache
    /\ pc = "start"
    /\ pulls = <<>>
    /\ builds = <<>>
    /\ bi = 1
    /\ buildCache = <<>>
    /\ pulled = {}
    /\ log = <<>>
    /\ sink = <<>>
    /\ err = NilErr
    /\ faults = 0
    /\ fs = <<>>
    /\ disk = <<>>
    /\ call = NoCall

\* --------------------------------------------------------------- the planner

\* a variant of the append below that keeps only the last tag of a reference
AppendTagOverwrite(p, image, tag) ==
    [k \in DOMAIN p \cup {image} |-> IF k = image THEN <<tag>> ELSE p[k]]

\* a variant of the append below that puts the tag in front
AppendTagFront(p, image, tag) ==
    [k \in DOMAIN p \cup {image} |->
        IF k = image
        THEN <<tag>> \o (IF image \in DOMAIN p THEN p[image] ELSE <<>>)
        ELSE p[k]]

\* pulls[image] = append(pulls[image], tag)
AppendTag(p, image, tag) ==
    [k \in DOMAIN p \cup {image} |->
        IF k = image
        THEN (IF image \in DOMAIN p THEN p[image] ELSE <<>>) \o <<tag>>
        ELSE p[k]]

\* a variant of the loop below that puts each service in front of builds
RECURSIVE PlanFromReversed(_, _, _)
PlanFromReversed(i, p, b) ==
    IF i > Len(services) THEN [pulls |-> p, builds |-> b]
    ELSE LET service == services[i]
         IN  IF service.Image # Empty
             THEN PlanFromReversed(i + 1, AppendTag(p, Normalize(service.Image), Tag(service)), b)
             ELSE PlanFromReversed(i + 1, p, <<service>> \o b)

\* the loop over the run-ordered services, from service i on
RECURSIVE PlanFrom(_, _, _)
PlanFrom(i, p, b) ==
    IF i > Len(services) THEN [pulls |-> p, builds |-> b]
    ELSE LET service == services[i]
         IN  IF service.Image # Empty
             THEN PlanFrom(i + 1, AppendTag(p, Normalize(service.Image), Tag(service)), b)
             ELSE PlanFrom(i + 1, p, Append(b, service))

\* runOrder and the partition of its result into pulls and builds
Plan ==
    /\ pc = "start"
    /\ \E orderOk \in BOOLEAN :
        /\ ~orderOk => faults < MaxFaults
        /\ IF orderOk
           THEN LET plan == PlanFrom(1, <<>>, <<>>)
                IN  /\ pulls' = plan.pulls
                    /\ builds' = plan.builds
                    /\ pc' = "run"
                    /\ UNCHANGED <<err, faults>>
           ELSE /\ err' = Err("", "runOrder")
                /\ pc' = "done"
                /\ faults' = faults + 1
                /\ UNCHANGED <<pulls, builds>>
    /\ UNCHANGED <<inputs, store, staging, bi, buildCache, pulled, log, sink, fs, trees>>

InBuildLoop == pc = "run" /\ bi <= Len(builds)
InPullLoop == pc = "run" /\ bi > Len(builds)

\* ------------------------------------------------- the build loop: a memo hit

\* a variant of the step below that clears the staging directory as well
TagMemoHitClearing ==
    /\ InBuildLoop
    /\ LET service == builds[bi]
           hash == Hash(service.Build)
       IN  /\ hash \in DOMAIN buildCache
           /\ \E ok \in BOOLEAN :
               /\ ~ok => faults < MaxFaults
               /\ log' = Append(log, Cmd(Docker(<< <<"tag">>, buildCache[hash], Tag(service) >>),
                                         ok, FALSE, service.Name))
               /\ IF ok
                  THEN /\ bi' = bi + 1
                       /\ UNCHANGED <<pc, err, faults>>
                  ELSE /\ err' = Err("build error", "tag")
                       /\ pc' = "done"
                       /\ faults' = faults + 1
                       /\ UNCHANGED bi
    /\ staging' = Empty
    /\ UNCHANGED <<inputs, store, pulls, builds, buildCache, pulled, sink, fs, trees>>

\* lines 53-58: the hash is in buildCache; tag the image built before
TagMemoHit ==
    /\ InBuildLoop
    /\ LET service == builds[bi]
           hash == Hash(service.Build)
       IN  /\ hash \in DOMAIN buildCache
           /\ \E ok \in BOOLEAN :
               /\ ~ok => faults < MaxFaults
               /\ log' = Append(log, Cmd(Docker(<< <<"tag">>, buildCache[hash], Tag(service) >>),
                                         ok, FALSE, service.Name))
               /\ IF ok
                  THEN /\ bi' = bi + 1
                       /\ UNCHANGED <<pc, err, faults>>
                  ELSE /\ err' = Err("build error", "tag")
                       /\ pc' = "done"
                       /\ faults' = faults + 1
                       /\ UNCHANGED bi
    /\ UNCHANGED <<inputs, store, staging, pulls, builds, buildCache, pulled, sink, fs, trees>>

\* --------------------------------------------------- the build loop: a build

Context(service) == Join(dir, coalesce(service.Build.Context, <<".">>))

DockerFile(service) ==
    Join(Context(service),
         coalesce(service.Build.Dockerfile, coalesce(service.Dockerfile, <<"Dockerfile">>)))

\* a variant of the loop below that forwards every environment variable
MergeAllEnv(bargs, dba, env) ==
    [k \in DOMAIN bargs \cup DOMAIN env |-> IF k \in DOMAIN env THEN env[k] ELSE bargs[k]]

\* lines 103-107: each declared name the environment has overrides bargs
RECURSIVE MergeEnv(_, _, _)
MergeEnv(bargs, dba, env) ==
    IF dba = <<>> THEN bargs
    ELSE LET ba == Head(dba)
         IN  IF ba \in DOMAIN env
             THEN MergeEnv([k \in DOMAIN bargs \cup {ba} |-> IF k = ba THEN env[ba] ELSE bargs[k]],
                           Tail(dba), env)
             ELSE MergeEnv(bargs, Tail(dba), env)

\* lines 117-119: "--build-arg", "name=value" for each name in order
RECURSIVE ArgFlags(_, _)
ArgFlags(bargNames, bargs) ==
    IF bargNames = <<>> THEN <<>>
    ELSE << <<"--build-arg">>, Head(bargNames) \o <<"=">> \o bargs[Head(bargNames)] >>
         \o ArgFlags(Tail(bargNames), bargs)

\* lines 60-64 and 109-123: the arguments of the build command
BuildArgv(service, bargs) ==
    << <<"build">> >>
    \o (IF ~opts.Cache THEN << <<"--no-cache">> >> ELSE <<>>)
    \o ArgFlags(SortStrings(DOMAIN bargs), bargs)
    \o << <<"-f">>, DockerFile(service) >>
    \o << <<"-t">>, Tag(service) >>
    \o << Context(service) >>

CopyOutcomes == {"ok", "enoent", "fail"}

\* the outcomes of the calls one build can make: TRUE or "ok" is success
Outcomes ==
    [stat : BOOLEAN, rmall : BOOLEAN, copy : CopyOutcomes, read : BOOLEAN,
     build : BOOLEAN, create : BOOLEAN, rmrf : BOOLEAN, cp : BOOLEAN, rm : BOOLEAN]

B2N(b) == IF b THEN 0 ELSE 1

Failures(o) ==
    B2N(o.stat) + B2N(o.rmall) + B2N(o.copy = "ok") + B2N(o.read) + B2N(o.build)
    + B2N(o.create) + B2N(o.rmrf) + B2N(o.cp) + B2N(o.rm)

\* the outcomes with at most n failures
OutcomesUpTo == [n \in 0..MaxFaults |-> {o \in Outcomes : Failures(o) <= n}]

CacheError(cause) == <<"cache error: ", cause>>

\* a variant of the restore below that reports no failure to the stream
RestoreSilent(hash, o) ==
    IF opts.CacheDir = Empty \/ ~o.stat \/ store[hash] = Empty
    THEN [staging |-> staging, lines |-> <<>>]
    ELSE LET removed == IF o.rmall THEN Empty ELSE staging
         IN  IF removed # Empty THEN [staging |-> removed, lines |-> <<>>]
             ELSE IF o.copy = "ok" THEN [staging |-> store[hash], lines |-> <<>>]
             ELSE IF o.copy = "enoent" THEN [staging |-> Empty, lines |-> <<>>]
             ELSE [staging |-> <<"partial">>, lines |-> <<>>]

\* a variant of the restore below that reports a missing source too
RestoreReportsMissing(hash, o) ==
    IF opts.CacheDir = Empty \/ ~o.stat \/ store[hash] = Empty
    THEN [staging |-> staging, lines |-> <<>>]
    ELSE LET removed == IF o.rmall THEN Empty ELSE staging
             l1 == IF o.rmall THEN <<>> ELSE << CacheError("remove") >>
         IN  IF removed # Empty
             THEN [staging |-> removed, lines |-> l1 \o << CacheError("destination already exists") >>]
             ELSE IF o.copy = "ok" THEN [staging |-> store[hash], lines |-> l1]
             ELSE IF o.copy = "enoent"
                  THEN [staging |-> Empty, lines |-> l1 \o << CacheError("no such file or directory") >>]
             ELSE [staging |-> <<"partial">>, lines |-> l1 \o << CacheError("copy") >>]

\* lines 71-90: restore <CacheDir>/<hash> into the staging directory
Restore(hash, o) ==
    IF opts.CacheDir = Empty \/ ~o.stat \/ store[hash] = Empty
    THEN [staging |-> staging, lines |-> <<>>]
    ELSE LET removed == IF o.rmall THEN Empty ELSE staging
             l1 == IF o.rmall THEN <<>> ELSE << CacheError("remove") >>
         IN  IF removed # Empty
             THEN [staging |-> removed, lines |-> l1 \o << CacheError("destination already exists") >>]
             ELSE IF o.copy = "ok" THEN [staging |-> store[hash], lines |-> l1]
             ELSE IF o.copy = "enoent" THEN [staging |-> Empty, lines |-> l1]
             ELSE [staging |-> <<"partial">>, lines |-> l1 \o << CacheError("copy") >>]

\* a variant of the write-back below that gives up when create failed
WriteBackUnlessCreateFailed(service, o) ==
    LET hash == Hash(service.Build)
        rcd == Join(opts.CacheDir, hash)
        who == service.Name
        create == Cmd(Docker(<< <<"create">>, <<"--name">>, hash, Tag(service) >>), o.create, FALSE, who)
    IN  IF ~o.create
        THEN [cmds |-> <<create>>, lines |-> << CacheError("create") >>, entry |-> store[hash]]
        ELSE [cmds |-> << create,
                          Cmd(<< <<"rm">>, <<"-rf">>, rcd >>, o.rmrf, FALSE, who),
                          Cmd(Docker(<< <<"cp">>, hash \o <<":/var/cache/build">>, rcd >>), o.cp, FALSE, who),
                          Cmd(Docker(<< <<"rm">>, hash >>), o.rm, FALSE, who) >>,
              lines |-> (IF o.cp THEN <<>> ELSE << <<"ignoring build cache">> >>)
                            \o (IF o.rm THEN <<>> ELSE << CacheError("rm") >>),
              entry |-> IF o.cp THEN <<"cache of ">> \o hash
                        ELSE IF o.rmrf THEN Empty ELSE store[hash]]

\* lines 142-158: create, rm -rf, cp, rm
WriteBack(service, o) ==
    LET hash == Hash(service.Build)
        rcd == Join(opts.CacheDir, hash)
        who == service.Name
        afterRm == IF o.rmrf THEN Empty ELSE store[hash]
    IN  [cmds |-> << Cmd(Docker(<< <<"create">>, <<"--name">>, hash, Tag(service) >>), o.create, FALSE, who),
                     Cmd(<< <<"rm">>, <<"-rf">>, rcd >>, o.rmrf, FALSE, who),
                     Cmd(Docker(<< <<"cp">>, hash \o <<":/var/cache/build">>, rcd >>), o.cp, FALSE, who),
                     Cmd(Docker(<< <<"rm">>, hash >>), o.rm, FALSE, who) >>,
     lines |-> (IF o.create THEN <<>> ELSE << CacheError("create") >>)
                   \o (IF o.cp THEN <<>> ELSE << <<"ignoring build cache">> >>)
                   \o (IF o.rm THEN <<>> ELSE << CacheError("rm") >>),
     entry |-> IF o.cp THEN <<"cache of ">> \o hash ELSE afterRm]

\* the calls of one build that are made at all, given the earlier outcomes
Reached(service, o) ==
    LET hash == Hash(service.Build)
        cacheOn == opts.CacheDir # Empty
        found == cacheOn /\ o.stat /\ store[hash] # Empty
        scanned == buildArgs(files[DockerFile(service)], o.read)
        built == ~scanned.err /\ ~scanned.panic
    IN  [stat |-> cacheOn, rmall |-> found,
         copy |-> found /\ (o.rmall \/ staging = Empty),
         read |-> TRUE, build |-> built,
         wb |-> built /\ o.build /\ cacheOn]

\* an outcome is chosen only for a call that is made
Canonical(service, o) ==
    LET r == Reached(service, o)
    IN  /\ ~r.stat => o.stat
        /\ ~r.rmall => o.rmall
        /\ ~r.copy => o.copy = "ok"
        /\ ~r.build => o.build
        /\ ~r.wb => (o.create /\ o.rmrf /\ o.cp /\ o.rm)

\* what the filesystem calls of one build found and how they ended: the
\* entry of the store and the staging directory before the restore, the
\* staging directory after it, and where the step's lines and commands start
Calls(service, o, after) ==
    [who |-> service.Name, hash |-> Hash(service.Build),
     entry |-> store[Hash(service.Build)], before |-> staging, after |-> after,
     stat |-> o.stat, rmall |-> o.rmall, copy |-> o.copy, read |-> o.read,
     sinkAt |-> Len(sink), logAt |-> Len(log)]

\* a variant of the assignment below that records nothing
RememberNothing(memo, hash, tag) == memo

\* buildCache[hash] = tag
Remember(memo, hash, tag) ==
    [h \in DOMAIN memo \cup {hash} |-> IF h = hash THEN tag ELSE memo[h]]

\* a variant of the steps below in which a failed create ends the run
AfterBuildFatal(service, o) ==
    LET hash == Hash(service.Build)
        wb == WriteBack(service, o)
    IN  IF opts.CacheDir # Empty /\ ~o.create
        THEN [cmds |-> <<wb.cmds[1]>>, lines |-> <<>>, entry |-> store[hash],
              memo |-> buildCache, err |-> Err("cache error", "create")]
        ELSE [cmds |-> IF opts.CacheDir # Empty THEN wb.cmds ELSE <<>>,
              lines |-> IF opts.CacheDir # Empty THEN wb.lines ELSE <<>>,
              entry |-> IF opts.CacheDir # Empty THEN wb.entry ELSE store[hash],
              memo |-> Remember(buildCache, hash, Tag(service)), err |-> NilErr]

\* lines 142-160, after a build that succeeded: the write-back if a cache
\* directory is set, then the memo; no step of it returns
AfterBuild(service, o) ==
    LET hash == Hash(service.Build)
        wb == WriteBack(service, o)
    IN  [cmds |-> IF opts.CacheDir # Empty THEN wb.cmds ELSE <<>>,
         lines |-> IF opts.CacheDir # Empty THEN wb.lines ELSE <<>>,
         entry |-> IF opts.CacheDir # Empty THEN wb.entry ELSE store[hash],
         memo |-> Remember(buildCache, hash, Tag(service)),
         err |-> NilErr]

\* lines 60-160: the hash is not in buildCache; restore the cache, build, write
\* the cache back, record the hash
BuildService ==
    /\ InBuildLoop
    /\ LET service == builds[bi]
           hash == Hash(service.Build)
       IN  /\ hash \notin DOMAIN buildCache
           /\ \E o \in OutcomesUpTo[MaxFaults - faults] :
               /\ Canonical(service, o)
               /\ LET restored == Restore(hash, o)
                      dba == buildArgs(files[DockerFile(service)], o.read)
                      bargs == MergeEnv(service.Build.Args, dba.args, opts.Environment)
                      build == Cmd(Docker(BuildArgv(service, bargs)), o.build, FALSE, service.Name)
                      after == AfterBuild(service, o)
                  IN  /\ faults' = faults + Failures(o)
                      /\ staging' = restored.staging
                      /\ fs' = Append(fs, Calls(service, o, restored.staging))
                      /\ IF dba.err
                         THEN /\ err' = Err("", "read")
                              /\ pc' = "done"
                              /\ sink' = sink \o restored.lines
                              /\ UNCHANGED <<log, store, buildCache, bi>>
                         ELSE IF dba.panic
                         THEN /\ pc' = "panic"
                              /\ sink' = sink \o restored.lines
                              /\ UNCHANGED <<log, store, buildCache, bi, err>>
                         ELSE IF ~o.build
                         THEN /\ log' = Append(log, build)
                              /\ err' = Err("build error", "build")
                              /\ pc' = "done"
                              /\ sink' = sink \o restored.lines
                              /\ UNCHANGED <<store, buildCache, bi>>
                         ELSE /\ log' = Append(log, build) \o after.cmds
                              /\ sink' = sink \o restored.lines \o after.lines
                              /\ store' = [store EXCEPT ![hash] = after.entry]
                              /\ buildCache' = after.memo
                              /\ err' = after.err
                              /\ pc' = IF after.err.set THEN "done" ELSE pc
                              /\ bi' = IF after.err.set THEN bi ELSE bi + 1
    /\ UNCHANGED <<inputs, pulls, builds, pulled, trees>>

\* ------------------------------------------------------------ the pull loop

\* a variant of the decision below that pulls only when caching is off
NeedPullCacheOnly(out) == ~opts.Cache

\* line 173: pull unless caching is on and the query printed an image id
NeedPull(out) == ~opts.Cache \/ ~out

\* a variant of the loop below that goes on after a tag command failed
TagCmdsAll(image, tags, n, k) ==
    [j \in 1..Len(tags) |-> Cmd(Docker(<< <<"tag">>, image, tags[j] >>), j # k, FALSE, image)]

\* the tag commands for tags[1..n] of image; the k-th fails (none if k = 0)
TagCmds(image, tags, n, k) ==
    [j \in 1..n |-> Cmd(Docker(<< <<"tag">>, image, tags[j] >>), j # k, FALSE, image)]

\* lines 163-183: one iteration of the loop over pulls, in map order
PullImage ==
    /\ InPullLoop
    /\ \E image \in DOMAIN pulls \ pulled :
       \E queryOk, out, pullOk \in BOOLEAN, k \in 0..Len(pulls[image]) :
        LET tags == pulls[image]
            query == Cmd(Docker(<< <<"images">>, <<"-q">>, image >>), queryOk, out, image)
            pull == Cmd(Docker(<< <<"pull">>, image >>), pullOk, FALSE, image)
            pulling == queryOk /\ NeedPull(out)
            tagging == queryOk /\ (pulling => pullOk)
            failed == B2N(queryOk) + B2N(pullOk) + B2N(k = 0)
        IN  /\ faults + failed <= MaxFaults
            /\ ~queryOk => ~out
            /\ ~pulling => pullOk
            /\ ~tagging => k = 0
            /\ faults' = faults + failed
            /\ log' = log \o <<query>>
                          \o (IF pulling THEN <<pull>> ELSE <<>>)
                          \o (IF tagging
                              THEN TagCmds(image, tags, IF k = 0 THEN Len(tags) ELSE k, k)
                              ELSE <<>>)
            /\ IF ~queryOk
               THEN err' = Err("", "images") /\ pc' = "done" /\ UNCHANGED pulled
               ELSE IF ~tagging
               THEN err' = Err("build error", "pull") /\ pc' = "done" /\ UNCHANGED pulled
               ELSE IF k # 0
               THEN err' = Err("build error", "tag") /\ pc' = "done" /\ UNCHANGED pulled
               ELSE pulled' = pulled \cup {image} /\ UNCHANGED <<pc, err>>
    /\ UNCHANGED <<inputs, store, staging, pulls, builds, bi, buildCache, sink, fs, trees>>

\* line 185: both loops are over
Return ==
    /\ InPullLoop
    /\ pulled = DOMAIN pulls
    /\ pc' = "done"
    /\ UNCHANGED <<inputs, store, staging, pulls, builds, bi, buildCache, pulled,
                   log, sink, err, faults, fs, trees>>

Next == Plan \/ TagMemoHit \/ BuildService \/ PullImage \/ Return

\* ------------------------------------------------------------------ inputs

BuildA == BuildOf(<<"a">>, Empty, NoArgs, "h1")
BuildB == BuildOf(Empty, <<"Dockerfile.dev">>, (<<"T">> :> <<"x">>), "h2")

\* the services a manifest of the orchestration specification is made of
ServicePool ==
    { BuildSvc(Empty, BuildA), BuildSvc(Empty, BuildB),
      ImageSvc(<<"redis">>), ImageSvc(<<"nginx">>) }

Manifests(pool, n) == {Named(seq) : seq \in SeqsUpTo(pool, n) \ {<<>>}}

FromLine == <<"FROM", " ", "x">>

Files ==
    (Join(Join(dir, <<"a">>), <<"Dockerfile">>) :> << FromLine >>)
    @@ (Join(dir, <<"Dockerfile.dev">>) :> << FromLine, <<"ARG", " ", "T">> >>)

Env == (<<"T">> :> <<"secret">>) @@ (<<"U">> :> <<"u">>)

Init ==
    InitOf(Manifests(ServicePool, MaxServices),
           { Options(c, Empty, Env) : c \in BOOLEAN }
             \cup { Options(TRUE, <<"cachedir">>, Env) },
           { Files }, { NoCache, Kept })

Spec == Init /\ [][Next]_vars

\* ---------------------------------- inputs: image references of every shape

RefChunks == {"r", "/", ":"}

\* every non-empty reference of at most MaxRefLen chunks
Refs == SeqsUpTo(RefChunks, MaxRefLen) \ {Empty}

\* two images, the second one "r:latest", among two services built from the
\* same inputs
RefManifests ==
    { Named(<< ImageSvc(r1), BuildSvc(Empty, BuildA),
               ImageSvc(<<"r">> \o Latest), BuildSvc(Empty, BuildA) >>) : r1 \in Refs }

InitRefs ==
    InitOf(RefManifests, { Options(c, Empty, Env) : c \in BOOLEAN }, { Files }, { NoCache })

SpecRefs == InitRefs /\ [][Next]_vars

\* ------------------------------- inputs: build arguments, files, environments

ArgNames == { <<"K">>, <<"T">>, <<"T", "K">> }

\* the maps from some of the names to one value
Maps(names, value) == UNION { [d -> {value}] : d \in SUBSET names }

ArgLine(rest) == <<"ARG", " ">> \o rest

\* build-definition files: without ARG, with defaults, with repeats, with extra
\* spaces, with another directive that mentions ARG, with an ARG without a
\* name, with a line of more than 64 KiB
FilePool ==
    { << FromLine >>,
      << FromLine, <<"ARG">>, ArgLine(<<"T">>) >>,
      << FromLine, ArgLine(<<"T">>) >>,
      << ArgLine(<<"K", "=", "d">>), Empty, FromLine, <<" ", "ARG", " ", " ", "T", " ", "x">> >>,
      << ArgLine(<<"T", "K">>), ArgLine(<<"T">>), ArgLine(<<"T", "K", "=", "d", "=", "e">>) >>,
      << <<"RUN", " ", "ARG", " ", "K">>, <<"ARG", "K", " ", "T">>, ArgLine(<<"K">>) >>,
      << ArgLine(<<"K">>), <<"RUN", " ", LongRun>>, ArgLine(<<"T">>) >> }

ArgManifests ==
    { Named(<< BuildSvc(Empty, BuildOf(<<"a">>, Empty, args, "h1")),
               ImageSvc(<<"redis">>),
               BuildSvc(Empty, BuildOf(<<"a">>, Empty, args, "h1")) >>) :
        args \in Maps(ArgNames, <<"x">>) }

InitArgs ==
    InitOf(ArgManifests,
           { Options(c, Empty, e) : c \in BOOLEAN, e \in Maps(ArgNames, <<"secret">>) },
           { Join(Join(dir, <<"a">>), <<"Dockerfile">>) :> f : f \in FilePool },
           { NoCache })

SpecArgs == InitArgs /\ [][Next]_vars

\* ============================================================ properties

\* c is the docker command with this verb
IsDocker(c, verb) ==
    Len(c.args) >= 2 /\ c.args[1] = <<"docker">> /\ c.args[2] = <<verb>>

LogIndex == 1..Len(log)

\* the commands of the log issued while processing `who`
CmdsOf(who) == {i \in LogIndex : log[i].who = who}

BuildsOf(who) == {i \in CmdsOf(who) : IsDocker(log[i], "build")}
TagsOf(who) == {i \in CmdsOf(who) : IsDocker(log[i], "tag")}

BuildIndex == 1..Len(builds)

\* the first service of builds with the hash of builds[j]
FirstWithHash(j) ==
    CHOOSE k \in BuildIndex :
        /\ Hash(builds[k].Build) = Hash(builds[j].Build)
        /\ \A m \in 1..(k - 1) : Hash(builds[m].Build) # Hash(builds[j].Build)

Succeeded == pc = "done" /\ ~err.set

\* C1: among the build-group services of one hash at most one build command is
\* issued; each later service of that hash, once the loop has passed it, got no
\* build command and exactly one command, `tag <tag of the first> <own tag>`;
\* a run that returns nil has passed every service.
OneBuildPerHash ==
    LET built == [j \in BuildIndex |-> BuildsOf(builds[j].Name)]
    IN  /\ \A j, k \in BuildIndex :
              Hash(builds[j].Build) = Hash(builds[k].Build) /\ j # k
              => built[j] = {} \/ built[k] = {}
        /\ \A j \in BuildIndex : Cardinality(built[j]) <= 1
        /\ \A j \in BuildIndex :
              j < bi =>
                LET f == FirstWithHash(j)
                    own == builds[j].Name
                IN  IF f = j
                    THEN Cardinality(built[j]) = 1 /\ TagsOf(own) = {}
                    ELSE /\ built[j] = {}
                         /\ Cardinality(CmdsOf(own)) = 1
                         /\ \A i \in CmdsOf(own) :
                              log[i].args = Docker(<< <<"tag">>, Tag(builds[f]), Tag(builds[j]) >>)
        /\ Succeeded => bi > Len(builds)

\* a run returned nil after a service was tagged from an earlier build of its hash
MemoHitTagged ==
    /\ Succeeded
    /\ \E j \in BuildIndex : FirstWithHash(j) < j /\ TagsOf(builds[j].Name) # {}

\* the three ways a service ends, read off the commands issued
Built(s) ==
    \E i \in LogIndex :
        /\ IsDocker(log[i], "build") /\ log[i].ok
        /\ \E n \in 1..(Len(log[i].args) - 1) :
              log[i].args[n] = <<"-t">> /\ log[i].args[n + 1] = Tag(s)

MemoTagged(s) ==
    \E i \in LogIndex :
        /\ log[i].ok
        /\ IsDocker(log[i], "tag")
        /\ log[i].args[4] = Tag(s)
        /\ \E f \in 1..Len(services) :
              log[i].args[3] = Tag(services[f]) /\ Built(services[f])

PulledTagged(s) ==
    /\ s.Image # Empty
    /\ \E i \in LogIndex :
        /\ log[i].ok
        /\ log[i].args = Docker(<< <<"tag">>, Normalize(s.Image), Tag(s) >>)

StatesOf(s) ==
    B2N(~Built(s)) + B2N(~MemoTagged(s)) + B2N(~PulledTagged(s))

\* the commands that produce the image of s under its destination tag
Producing(s) ==
    {i \in LogIndex :
        \/ /\ IsDocker(log[i], "build")
           /\ \E n \in 1..(Len(log[i].args) - 1) :
                 log[i].args[n] = <<"-t">> /\ log[i].args[n + 1] = Tag(s)
        \/ /\ IsDocker(log[i], "tag")
           /\ log[i].args[Len(log[i].args)] = Tag(s)}

\* C2: when Build returns nil every service is in exactly one of the states
\* built, tagged from an earlier build, tagged from its pulled image, and one
\* command produced its tag.
OneTerminalState ==
    Succeeded =>
        \A n \in 1..Len(services) :
            /\ StatesOf(services[n]) = 1
            /\ Cardinality(Producing(services[n])) = 1

\* a run returned nil with a service in each of the three states
AllThreeStates ==
    /\ Succeeded
    /\ \E a, b, c \in 1..Len(services) :
          Built(services[a]) /\ MemoTagged(services[b]) /\ PulledTagged(services[c])

\* the position in the run-ordered list of the service named who, 0 for an image
ServiceIndex(who) ==
    IF \E n \in 1..Len(services) : services[n].Name = who
    THEN CHOOSE n \in 1..Len(services) : services[n].Name = who
    ELSE 0

ForBuildGroup(c) ==
    \E n \in 1..Len(services) : services[n].Image = Empty /\ c.who = services[n].Name
ForPullGroup(c) ==
    \E n \in 1..Len(services) :
        services[n].Image # Empty /\ c.who = Normalize(services[n].Image)

\* C3: every command is for a build-group service or for a pull-group image;
\* the command after one for an image is for an image too, and the command
\* after one for a build-group service is for that service, for a later one of
\* the run-ordered list, or for an image.
BuildsBeforePulls ==
    /\ \A i \in LogIndex : ForBuildGroup(log[i]) # ForPullGroup(log[i])
    /\ \A i \in 1..(Len(log) - 1) :
          IF ForPullGroup(log[i])
          THEN ForPullGroup(log[i + 1])
          ELSE ForBuildGroup(log[i + 1])
               => ServiceIndex(log[i].who) <= ServiceIndex(log[i + 1].who)

\* a pull service comes first in the list, two build services follow it, and
\* commands were issued for all three
InterleavedRun ==
    /\ Len(services) = 3
    /\ services[1].Image # Empty /\ services[2].Image = Empty /\ services[3].Image = Empty
    /\ \A n \in 1..3 :
          \E i \in LogIndex :
              log[i].who = (IF n = 1 THEN Normalize(services[1].Image) ELSE services[n].Name)

\* the failures that end the run
FatalFailure(c) ==
    /\ ~c.ok
    /\ IsDocker(c, "build") \/ IsDocker(c, "tag") \/ IsDocker(c, "images") \/ IsDocker(c, "pull")

\* C4: a failed build, tag, images or pull command is the last command issued
\* and Build has returned an error; so has it after a build-definition file
\* could not be read, with no command issued for that service; the hash of a
\* failed build is not in the memo.
FatalEndsRun ==
    /\ \A i \in LogIndex :
          FatalFailure(log[i]) => i = Len(log) /\ pc = "done" /\ err.set
    /\ err.set => pc = "done"
    /\ err.set /\ err.cause = "read" => CmdsOf(builds[bi].Name) = {}
    /\ err.set /\ err.cause = "build" =>
          /\ IsDocker(log[Len(log)], "build")
          /\ log[Len(log)].who = builds[bi].Name
          /\ Hash(builds[bi].Build) \notin DOMAIN buildCache

\* a build failed with services and images still to process
BuildFailedEarly ==
    /\ err.set /\ err.cause = "build"
    /\ bi < Len(builds)
    /\ DOMAIN pulls # {}

\* a failed step of the cache write-back
WriteBackFailure(c) ==
    ~c.ok /\ (IsDocker(c, "create") \/ IsDocker(c, "cp") \/ IsDocker(c, "rm"))

\* the line Build sends to the stream for a failed write-back step
WriteBackLine(c) ==
    IF IsDocker(c, "create") THEN CacheError("create")
    ELSE IF IsDocker(c, "cp") THEN <<"ignoring build cache">>
    ELSE CacheError("rm")

\* the failed write-back steps among the commands a step added to the log
NewFailures == {i \in (Len(log) + 1)..Len(log') : WriteBackFailure(log'[i])}

\* C5: a step in which create, cp or rm of the write-back failed leaves the
\* error and the control state as a step without failure does: Build has not
\* returned, the loop is at the next service, the memo holds hash -> tag, the
\* plan is untouched; all four write-back commands were issued and the stream
\* got one line per failed command, after anything else the step sent.
WriteBackNeverAborts ==
    [][ NewFailures # {} =>
          LET service == builds[bi]
              n == Cardinality(NewFailures)
          IN  /\ opts.CacheDir # Empty
              /\ pc' = "run" /\ err' = NilErr
              /\ bi' = bi + 1
              /\ buildCache' = [h \in DOMAIN buildCache \cup {Hash(service.Build)} |->
                                  IF h = Hash(service.Build) THEN Tag(service) ELSE buildCache[h]]
              /\ <<pulls', builds', pulled'>> = <<pulls, builds, pulled>>
              /\ Len(log') >= 5
              /\ IsDocker(log'[Len(log') - 4], "build")
              /\ IsDocker(log'[Len(log') - 3], "create")
              /\ IsDocker(log'[Len(log') - 1], "cp")
              /\ IsDocker(log'[Len(log')], "rm")
              /\ Len(sink') >= Len(sink) + n
              /\ \A i \in NewFailures :
                    \E m \in (Len(sink') - n + 1)..Len(sink') : sink'[m] = WriteBackLine(log'[i])
      ]_vars

\* a write-back command failed, a later service was built and the run returned nil
RunSurvivedWriteBack ==
    /\ Succeeded
    /\ \E i, j \in LogIndex :
          i < j /\ WriteBackFailure(log[i]) /\ IsDocker(log[j], "build")

QueriesOf(image) == {i \in CmdsOf(image) : IsDocker(log[i], "images")}
PullsOf(image) == {i \in CmdsOf(image) : IsDocker(log[i], "pull")}

\* C6: for each reference of the plan whose query was issued, pull is issued
\* (once) exactly when the query succeeded and caching is off or the query
\* printed nothing; a failed query ends the run with no pull and no tag.
PullDecision ==
    \A image \in DOMAIN pulls :
        LET queries == QueriesOf(image)
            pullCmds == PullsOf(image)
        IN  /\ Cardinality(queries) <= 1
            /\ Cardinality(pullCmds) <= 1
            /\ queries = {} => CmdsOf(image) = {}
            /\ \A q \in queries :
                  /\ log[q].args = Docker(<< <<"images">>, <<"-q">>, image >>)
                  /\ pullCmds # {} <=> (log[q].ok /\ (~opts.Cache \/ ~log[q].out))
                  /\ \A i \in pullCmds :
                        i = q + 1 /\ log[i].args = Docker(<< <<"pull">>, image >>)
                  /\ ~log[q].ok =>
                        /\ pullCmds = {} /\ TagsOf(image) = {}
                        /\ q = Len(log) /\ pc = "done" /\ err.set

\* with caching on an image found locally was tagged without a pull, and
\* another one not found locally was pulled
PullSkippedAndDone ==
    /\ opts.Cache
    /\ \E a, b \in pulled :
          /\ PullsOf(a) = {} /\ TagsOf(a) # {}
          /\ PullsOf(b) # {} /\ TagsOf(b) # {}

\* the services whose image normalizes to ref, in run order
ServicesOf(ref) ==
    SelectSeq([n \in 1..Len(services) |-> services[n]],
              LAMBDA s : s.Image # Empty /\ Normalize(s.Image) = ref)

\* the indices of a set, in increasing order
RECURSIVE Ascending(_)
Ascending(S) ==
    IF S = {} THEN <<>>
    ELSE LET m == CHOOSE x \in S : \A y \in S : x <= y
         IN  <<m>> \o Ascending(S \ {m})

\* C7: in a run that returns nil, for each reference R that images normalize
\* to: one query, at most one pull, then one `tag R <tag>` per service of R, in
\* the order of the services, and nothing else.
OnePullManyTags ==
    Succeeded =>
        \A n \in 1..Len(services) :
            services[n].Image # Empty =>
                LET ref == Normalize(services[n].Image)
                    of == ServicesOf(ref)
                    tags == Ascending(TagsOf(ref))
                IN  /\ Cardinality(PullsOf(ref)) <= 1
                    /\ Cardinality(QueriesOf(ref)) = 1
                    /\ Len(tags) = Len(of)
                    /\ \A m \in 1..Len(tags) :
                          /\ log[tags[m]].args = Docker(<< <<"tag">>, ref, Tag(of[m]) >>)
                          /\ \A i \in QueriesOf(ref) \cup PullsOf(ref) : i < tags[m]
                    /\ CmdsOf(ref) = QueriesOf(ref) \cup PullsOf(ref) \cup TagsOf(ref)

\* a run returned nil in which "r" and "r:latest" were pulled once and tagged twice
SharedReference ==
    /\ Succeeded
    /\ services[1].Image = <<"r">>
    /\ services[3].Image = <<"r">> \o Latest
    /\ Cardinality(PullsOf(<<"r">> \o Latest)) = 1
    /\ Cardinality(TagsOf(<<"r">> \o Latest)) = 2

\* the reference has ":" after its last "/"
Tagged(ref) ==
    \E i \in 1..Len(ref) : ref[i] = ":" /\ \A j \in (i + 1)..Len(ref) : ref[j] # "/"

Images == {services[n].Image : n \in 1..Len(services)} \ {Empty}

\* C8: normalization appends ":latest" exactly to the references without ":"
\* after their last "/", and is idempotent; every key of the plan has such a
\* ":" and is the normalization of an image; the query, the pull and the tag
\* source of a key are that key.
NormalizedKeys ==
    /\ \A image \in Images :
          /\ Normalize(image) = (IF Tagged(image) THEN image ELSE image \o <<":", "latest">>)
          /\ Normalize(Normalize(image)) = Normalize(image)
    /\ pc # "start" /\ err.cause # "runOrder" =>
          /\ DOMAIN pulls = {Normalize(image) : image \in Images}
          /\ \A ref \in DOMAIN pulls : Tagged(ref)
    /\ \A i \in LogIndex :
          /\ IsDocker(log[i], "images") \/ IsDocker(log[i], "pull") =>
                log[i].args[Len(log[i].args)] \in DOMAIN pulls
          /\ IsDocker(log[i], "tag") /\ ForPullGroup(log[i]) =>
                log[i].args[3] \in DOMAIN pulls
          /\ ForPullGroup(log[i]) => log[i].who \in DOMAIN pulls

\* an image "host:port/name" got ":latest", one "name:tag" was left alone, and
\* both were pulled and tagged
HostPortReference ==
    /\ Succeeded
    /\ services[1].Image = <<"r", ":", "r", "/", "r">>
    /\ services[3].Image = <<"r">> \o Latest
    /\ DOMAIN pulls = { <<"r", ":", "r", "/", "r", ":", "latest">>, <<"r", ":", "latest">> }
    /\ \A ref \in DOMAIN pulls : PullsOf(ref) # {} /\ TagsOf(ref) # {}

\* the names the build-definition file of a service declares with ARG
Declared(s) == Range(buildArgs(files[DockerFile(s)], TRUE).args)

\* the build arguments the service is to be built with
Forwarded(s) ==
    LET env == opts.Environment
        fromEnv == Declared(s) \cap DOMAIN env
    IN  [name \in DOMAIN s.Build.Args \cup fromEnv |->
            IF name \in fromEnv THEN env[name] ELSE s.Build.Args[name]]

\* the NAME=VALUE arguments of a command, each after a --build-arg
PairsAt(c) == {n \in 2..Len(c.args) : c.args[n - 1] = <<"--build-arg">>}

NameOf(pair) ==
    LET eq == CHOOSE n \in 1..Len(pair) : pair[n] = "=" /\ \A m \in 1..(n - 1) : pair[m] # "="
    IN  SubSeq(pair, 1, eq - 1)

\* a is before b in the order of the strings: at the first difference the
\* chunk of a is the lesser one, or a is a proper prefix of b
Before(a, b) ==
    \/ Len(a) < Len(b) /\ SubSeq(b, 1, Len(a)) = a
    \/ \E n \in 1..Len(a) :
          /\ n <= Len(b)
          /\ SubSeq(a, 1, n - 1) = SubSeq(b, 1, n - 1)
          /\ Ord(a[n]) < Ord(b[n])

\* C10: a build command is `docker build`, then --no-cache exactly if caching
\* is off, then the --build-arg pairs with strictly increasing names, then
\* -f <file> -t <tag> <context>, and nothing else.
BuildCommandShape ==
    \A i \in LogIndex :
        IsDocker(log[i], "build") =>
            LET a == log[i].args
                s == services[ServiceIndex(log[i].who)]
                nc == IF opts.Cache THEN 0 ELSE 1
                k == Cardinality(PairsAt(log[i]))
                first == 2 + nc
            IN  /\ Len(a) = first + 2 * k + 5
                /\ ~opts.Cache <=> a[3] = <<"--no-cache">>
                /\ \A n \in 3..Len(a) : a[n] = <<"--no-cache">> => n = 3
                /\ \A m \in 1..k : a[first + 2 * m - 1] = <<"--build-arg">>
                /\ \A m \in 1..(k - 1) :
                      Before(NameOf(a[first + 2 * m]), NameOf(a[first + 2 * m + 2]))
                /\ a[first + 2 * k + 1] = <<"-f">>
                /\ a[first + 2 * k + 2] = DockerFile(s)
                /\ a[first + 2 * k + 3] = <<"-t">>
                /\ a[first + 2 * k + 4] = Tag(s)
                /\ a[first + 2 * k + 5] = Context(s)

\* a build without layer cache whose three arguments are K, T and "TK"
ThreeSortedArgs ==
    \E i \in LogIndex :
        /\ IsDocker(log[i], "build")
        /\ ~opts.Cache
        /\ Cardinality(PairsAt(log[i])) = 3

\* ------------------------------------------------------ copyFile and copyDir

\* The calls of the operating system are counted from n; the call number
\* failAt fails (none if failAt = 0).

Umasks == {"022", "077"}

\* mode &^ umask, for the modes that occur
Masked(mode, umask) ==
    IF umask = "022"
    THEN (IF mode = "0666" THEN "0644" ELSE mode)
    ELSE (IF mode = "0666" THEN "0600" ELSE IF mode = "0755" THEN "0700" ELSE mode)

\* a variant of the call below that leaves the times of the file as they are
ChtimesNever(file, stat) == file

\* os.Chtimes(dst, stat.ModTime(), stat.ModTime())
Chtimes(file, stat) == [file EXCEPT !.mtime = stat.mtime]

\* lines 214-253: Open, Create, io.Copy, Sync, Stat, Chmod, Chtimes; out is
\* the file at dst when copyFile returns
copyFile(in, umask, n, failAt) ==
    LET step == failAt - n
        created == File("", Masked("0666", umask), "now")
        written == [created EXCEPT !.data = in.data]
        moded == [written EXCEPT !.mode = in.mode]
    IN  IF step = 1 THEN [err |-> "open", out |-> NoNode, n |-> n + 1]
        ELSE IF step = 2 THEN [err |-> "create", out |-> NoNode, n |-> n + 2]
        ELSE IF step = 3 THEN [err |-> "copy", out |-> [created EXCEPT !.data = "partial"], n |-> n + 3]
        ELSE IF step = 4 THEN [err |-> "sync", out |-> written, n |-> n + 4]
        ELSE IF step = 5 THEN [err |-> "stat", out |-> written, n |-> n + 5]
        ELSE IF step = 6 THEN [err |-> "chmod", out |-> written, n |-> n + 6]
        ELSE IF step = 7 THEN [err |-> "chtimes", out |-> moded, n |-> n + 7]
        ELSE [err |-> "", out |-> Chtimes(moded, in), n |-> n + 7]

\* a variant of the test below that takes an empty directory for nothing
ExistsUnlessEmpty(node) ==
    node.kind # "none"
    /\ ~(node.kind = "dir" /\ \A name \in EntryNames : node.entries[name].kind = "none")

\* lines 268-274: os.Stat(dst) returned no error
Exists(node) == node.kind # "none"

\* ioutil.ReadDir lists the entries by name
EntryOrder == <<"f", "g", "sub">>

\* lines 255-308: src and dst are what os.Stat finds at the two paths; dst of
\* the result is what is at the destination path when copyDir returns
RECURSIVE copyDir(_, _, _, _, _)
RECURSIVE CopyEntries(_, _, _, _, _, _)
copyDir(src, dst, umask, n, failAt) ==
    IF failAt = n + 1 THEN [err |-> "stat", dst |-> dst, n |-> n + 1]
    ELSE IF src.kind = "none" THEN [err |-> "no such file or directory", dst |-> dst, n |-> n + 1]
    ELSE IF src.kind # "dir" THEN [err |-> "source is not a directory", dst |-> dst, n |-> n + 1]
    ELSE IF failAt = n + 2 THEN [err |-> "stat", dst |-> dst, n |-> n + 2]
    ELSE IF Exists(dst) THEN [err |-> "destination already exists", dst |-> dst, n |-> n + 2]
    ELSE IF failAt = n + 3 THEN [err |-> "mkdir", dst |-> dst, n |-> n + 3]
    ELSE LET made == IF dst.kind = "dir" THEN dst
                     ELSE Dir(Masked(src.mode, umask), NoNode, NoNode, NoNode)
         IN  IF failAt = n + 4 THEN [err |-> "readdir", dst |-> made, n |-> n + 4]
             ELSE CopyEntries(src, made, EntryOrder, umask, n + 4, failAt)

\* lines 285-305: the loop over the entries of src, from the first of names on
CopyEntries(src, dst, names, umask, n, failAt) ==
    IF names = <<>> THEN [err |-> "", dst |-> dst, n |-> n]
    ELSE LET name == Head(names)
             f == src.entries[name]
         IN  IF f.kind = "none" \/ f.kind = "link"
             THEN CopyEntries(src, dst, Tail(names), umask, n, failAt)
             ELSE IF f.kind = "dir"
             THEN LET r == copyDir(f, dst.entries[name], umask, n, failAt)
                      to == [dst EXCEPT !.entries[name] = r.dst]
                  IN  IF r.err # "" THEN [err |-> r.err, dst |-> to, n |-> r.n]
                      ELSE CopyEntries(src, to, Tail(names), umask, r.n, failAt)
             ELSE LET r == copyFile(f, umask, n, failAt)
                      to == [dst EXCEPT !.entries[name] = r.out]
                  IN  IF r.err # "" THEN [err |-> r.err, dst |-> to, n |-> r.n]
                      ELSE CopyEntries(src, to, Tail(names), umask, r.n, failAt)

\* os.Stat and the calls that write follow a symbolic link at the path
Resolve(path) == IF disk[path].kind = "link" THEN disk[path].to ELSE path

\* copyDir("s", "d") on the disk, with one call failing or none
CopyDir ==
    /\ pc = "copy"
    /\ ~call.made
    /\ \E umask \in Umasks :
        LET src == disk[Resolve("s")]
            dst == disk[Resolve("d")]
            calls == copyDir(src, dst, umask, 0, 0).n
        IN  \E failAt \in 0..calls :
                LET r == copyDir(src, dst, umask, 0, failAt)
                IN  /\ disk' = [disk EXCEPT ![Resolve("d")] = r.dst]
                    /\ call' = [made |-> TRUE, err |-> r.err, failAt |-> failAt, before |-> disk]
    /\ UNCHANGED run

NextCopy == CopyDir

\* ------------------------------------------------------ inputs: trees to copy

F1 == File("x", "0644", "t1")
F2 == File("y", "0600", "t2")
LinkT == Link("t")

\* the directories with entries f, g and, down to depth levels below, sub
RECURSIVE Dirs(_)
Dirs(depth) ==
    { Dir("0755", f, g, sub) :
        f \in {NoNode, F1, LinkT}, g \in {NoNode, F2},
        sub \in IF depth = 0 THEN {NoNode} ELSE {NoNode} \cup Dirs(depth - 1) }

\* the directory the symbolic links point to
Target == Dir("0755", F2, NoNode, NoNode)

\* s: nothing, a file, a link to a directory, or a directory; d: nothing, a
\* file, a link to a directory, or a directory, empty or not
InitCopy ==
    /\ \E s \in {NoNode, F1, LinkT} \cup Dirs(MaxDepth),
          d \in {NoNode, F2, LinkT, Dir("0755", NoNode, NoNode, NoNode),
                 Dir("0755", F1, NoNode, NoNode)} :
          disk = [path \in {"s", "d", "t"} |->
                    IF path = "s" THEN s ELSE IF path = "d" THEN d ELSE Target]
    /\ call = NoCall
    /\ pc = "copy"
    /\ services = <<>> /\ opts = Options(TRUE, Empty, <<>>) /\ files = <<>>
    /\ store = <<>> /\ staging = Empty
    /\ pulls = <<>> /\ builds = <<>> /\ bi = 1 /\ buildCache = <<>> /\ pulled = {}
    /\ log = <<>> /\ sink = <<>> /\ err = NilErr /\ faults = 0 /\ fs = <<>>

SpecCopy == InitCopy /\ [][NextCopy]_vars

\* ------------------------------------------ inputs: runs with a cache store

\* an entry for h1 alone, or one for each hash, and no staging directory
Warm == [store |-> [h \in Hashes |-> IF h = <<"h1">> THEN <<"old">> ELSE Empty],
         staging |-> Empty]
Full == [store |-> [h \in Hashes |-> <<"old of ">> \o h], staging |-> Empty]

CachePool == { BuildSvc(Empty, BuildA), BuildSvc(Empty, BuildB), ImageSvc(<<"redis">>) }

InitCache ==
    InitOf(Manifests(CachePool, MaxServices),
           { Options(TRUE, <<"cachedir">>, Env) },
           { Files }, { Kept, Warm, Full })

SpecCache == InitCache /\ [][Next]_vars

\* ------------------------------------------------------ errors and the cache

\* C11: every error Build returns carries the prefix "build error" or
\* "cache error", whatever failed: runOrder, the read of a build-definition
\* file, a build, tag or pull command, or the query for the local image.
AllErrorsWrapped ==
    err.set => err.prefix \in {"build error", "cache error"}
\* the lines Build sent to the stream during the n-th build
LinesOf(n) ==
    SubSeq(sink, fs[n].sinkAt + 1,
           IF n < Len(fs) THEN fs[n + 1].sinkAt ELSE Len(sink))

\* those of them that are not about the write-back: the lines of the restore
RestoreLinesOf(n) ==
    SelectSeq(LinesOf(n),
              LAMBDA l : l \notin {CacheError("create"), CacheError("rm"),
                                   <<"ignoring build cache">>})

\* the restore of call record r found the entry and went on to the staging directory
Restoring(r) == opts.CacheDir # Empty /\ r.stat /\ r.entry # Empty

\* ... and its copy failed for another reason than a missing source: the
\* staging directory was still there, or the copy itself failed
TransferFailed(r) ==
    Restoring(r) /\ (IF ~r.rmall /\ r.before # Empty THEN TRUE ELSE r.copy = "fail")

\* the build command of the n-th build was issued, first of its commands
BuildIssued(n) ==
    /\ Len(log) > fs[n].logAt
    /\ IsDocker(log[fs[n].logAt + 1], "build")
    /\ log[fs[n].logAt + 1].who = fs[n].who

\* the build-definition file of the n-th build was read and scanned to its end
Scanned(n) ==
    /\ fs[n].read
    /\ ~buildArgs(files[DockerFile(services[ServiceIndex(fs[n].who)])], TRUE).panic

\* C12 as the specification states it: a failed transfer of the restore ends
\* the run with an error and no build command is issued for the service.
RestoreFailureIsFatal ==
    \A n \in 1..Len(fs) :
        TransferFailed(fs[n]) =>
            /\ pc = "done" /\ err.set
            /\ n = Len(fs)
            /\ ~BuildIssued(n)

\* C12: a failed transfer of the restore is not fatal: Build sends one
\* "cache error" line for it to the stream, as the last line of the restore,
\* and goes on to read the build-definition file; once the file is scanned the
\* build command of the service is issued.
RestoreFailureIsLogged ==
    \A n \in 1..Len(fs) :
        TransferFailed(fs[n]) =>
            LET lines == RestoreLinesOf(n)
            IN  /\ lines # <<>>
                /\ lines[Len(lines)] \in {CacheError("copy"),
                                          CacheError("destination already exists")}
                /\ Scanned(n) => BuildIssued(n)

\* the copy of a restore failed, the build went on and the run returned nil
RunSurvivedRestore ==
    /\ Succeeded
    /\ \E n \in 1..Len(fs) :
          fs[n].copy = "fail" /\ TransferFailed(fs[n]) /\ BuildIssued(n)

\* the number of failures of the restore of call record r that the stream is
\* told of: a failed removal of the staging directory, a failed transfer
Reported(r) ==
    IF ~Restoring(r) THEN 0
    ELSE B2N(r.rmall) + B2N(~TransferFailed(r))

\* C13: with a cache directory set the restore never ends the run.  If the
\* entry of the hash is absent nothing is sent to the stream and the staging
\* directory is as it was; if the copy fails for a missing file nothing is
\* sent for it; every other failure of the removal or of the copy sends one
\* line that starts with "cache error" and nothing else happens; whenever the
\* build-definition file is then scanned the build command is issued.
RestoreNeverAborts ==
    opts.CacheDir # Empty =>
        \A n \in 1..Len(fs) :
            LET r == fs[n]
                lines == RestoreLinesOf(n)
            IN  /\ r.entry = Empty => lines = <<>> /\ r.after = r.before
                /\ Restoring(r) /\ r.rmall /\ r.copy = "enoent" => lines = <<>>
                /\ Len(lines) = Reported(r)
                /\ \A m \in 1..Len(lines) :
                      Len(lines[m]) = 2 /\ lines[m][1] = "cache error: "
                /\ Scanned(n) => BuildIssued(n)

\* a run returned nil after a build whose entry was absent, with a staging
\* directory that stayed, and a build whose restore copy met a missing file
MissedAndVanished ==
    /\ Succeeded
    /\ \E a, b \in 1..Len(fs) :
          /\ fs[a].entry = Empty /\ fs[a].before # Empty /\ BuildIssued(a)
          /\ Restoring(fs[b]) /\ fs[b].copy = "enoent" /\ BuildIssued(b)

\* ------------------------------------------------------ the scanner's result

\* the lines whose first whitespace-delimited token is ARG, in file order
ArgLinesOf(lines) ==
    SelectSeq(lines, LAMBDA l : Fields(l) # <<>> /\ Fields(l)[1] = <<"ARG">>)

\* a token cut before its first "="
NameBefore(token) ==
    IF Contains(token, "=")
    THEN SubSeq(token, 1, (CHOOSE i \in 1..Len(token) :
                              token[i] = "=" /\ \A j \in 1..(i - 1) : token[j] # "=") - 1)
    ELSE token

\* the build-definition file of the n-th build, which was read
FileOf(n) == files[DockerFile(services[ServiceIndex(fs[n].who)])]

\* C14: for a build-definition file that was read buildArgs returns one name
\* for each line whose first token is ARG, in the order of the file, repeats
\* included: the second token of the line up to its first "=".
NamePerArgLine ==
    \A n \in 1..Len(fs) :
        fs[n].read =>
            LET r == buildArgs(FileOf(n), TRUE)
                argLines == ArgLinesOf(FileOf(n))
            IN  /\ ~r.err /\ ~r.panic
                /\ Len(r.args) = Len(argLines)
                /\ \A i \in 1..Len(argLines) :
                      Len(Fields(argLines[i])) >= 2 =>
                          r.args[i] = NameBefore(Fields(argLines[i])[2])

\* ------------------------------------------------------------- copies of trees

\* what os.Stat found at the source path before the call
SourceBefore ==
    call.before[IF call.before["s"].kind = "link" THEN call.before["s"].to ELSE "s"]

\* C15: a call of copyDir whose destination path exists (a file, a link, a
\* directory, empty or not), or whose source is missing or is not a
\* directory, returns an error and leaves every tree as it was.
DestinationKept ==
    call.made /\ (call.before["d"].kind # "none" \/ SourceBefore.kind # "dir") =>
        /\ call.err # ""
        /\ disk = call.before

\* copyDir from a directory with entries to a directory with a file in it
\* returned "destination already exists"
RefusedToMerge ==
    /\ call.made
    /\ call.err = "destination already exists"
    /\ SourceBefore.kind = "dir" /\ SourceBefore.entries["g"].kind = "file"
    /\ call.before["d"].kind = "dir" /\ call.before["d"].entries["f"].kind = "file"

\* dst has a directory for each directory of src, a file of the same content,
\* mode and time for each file, and nothing for a link or for nothing
RECURSIVE Mirrors(_, _)
Mirrors(src, dst) ==
    /\ dst.kind = "dir"
    /\ \A name \in EntryNames :
          LET e == src.entries[name]
              o == dst.entries[name]
          IN  IF e.kind = "dir" THEN Mirrors(e, o)
              ELSE IF e.kind = "file"
              THEN /\ o.kind = "file"
                   /\ o.data = e.data /\ o.mode = e.mode /\ o.mtime = e.mtime
              ELSE o.kind = "none"

\* C16: after a call of copyDir that returned nil the destination mirrors the
\* source without its symbolic links, at every depth, and the source and the
\* directory the links point to are as they were; a call from a directory to
\* a path where nothing is, with no call of the system failing, returns nil
\* whatever links the source holds.
CopyMirrorsSource ==
    call.made =>
        /\ call.err = "" =>
              /\ Mirrors(SourceBefore, disk["d"])
              /\ disk["s"] = call.before["s"] /\ disk["t"] = call.before["t"]
        /\ call.failAt = 0 /\ SourceBefore.kind = "dir" /\ call.before["d"].kind = "none" =>
              call.err = ""

\* copyDir returned nil for a source with a link and a file in it and in its
\* subdirectory
CopiedAroundLinks ==
    /\ call.made /\ call.err = ""
    /\ call.before["s"].kind = "dir"
    /\ LET top == call.before["s"].entries
       IN  /\ top["f"] = LinkT /\ top["g"] = F2
           /\ top["sub"].kind = "dir"
           /\ top["sub"].entries["f"] = LinkT /\ top["sub"].entries["g"] = F2

\* ------------------------------------------------- the cache across services

\* C17: with a cache directory set, a build command that succeeded is followed
\* at once by create --name H <tag>, rm -rf <CacheDir>/H, cp
\* H:/var/cache/build <CacheDir>/H and rm H of the same service, whichever of
\* them failed; create is issued nowhere else, so no command of another
\* service comes between create and rm H; and the memo holds a hash only
\* once the four commands of its build are issued.
WriteBackInOrder ==
    opts.CacheDir # Empty =>
        /\ \A i \in LogIndex :
              IsDocker(log[i], "build") /\ log[i].ok =>
                  LET s == services[ServiceIndex(log[i].who)]
                      hash == Hash(s.Build)
                      rcd == Join(opts.CacheDir, hash)
                  IN  /\ Len(log) >= i + 4
                      /\ log[i + 1].args = Docker(<< <<"create">>, <<"--name">>, hash, Tag(s) >>)
                      /\ log[i + 2].args = << <<"rm">>, <<"-rf">>, rcd >>
                      /\ log[i + 3].args
                            = Docker(<< <<"cp">>, hash \o <<":/var/cache/build">>, rcd >>)
                      /\ log[i + 4].args = Docker(<< <<"rm">>, hash >>)
                      /\ \A m \in 1..4 : log[i + m].who = log[i].who
                      /\ i + 4 < Len(log) => log[i + 5].who # log[i].who
        /\ \A i \in LogIndex :
              IsDocker(log[i], "create") =>
                  i > 1 /\ IsDocker(log[i - 1], "build") /\ log[i - 1].ok
        /\ \A h \in DOMAIN buildCache :
              \E i \in LogIndex :
                  /\ IsDocker(log[i], "build") /\ log[i].ok
                  /\ Hash(services[ServiceIndex(log[i].who)].Build) = h
                  /\ Len(log) >= i + 4 /\ IsDocker(log[i + 4], "rm")

\* create failed for one service, the three steps after it were taken, and
\* another service was built after that
WriteBackAfterFailedCreate ==
    \E i, j \in LogIndex :
        /\ IsDocker(log[i], "create") /\ ~log[i].ok
        /\ IsDocker(log[i + 3], "rm")
        /\ i + 3 < j /\ IsDocker(log[j], "build")

\* C18: the step for a service whose hash is in the memo issues one command,
\* tag <tag of the first service built with the hash> <tag of the service>,
\* and changes nothing else but the loop's position and the error: no file
\* is read, the staging directory, the store, the stream and the memo stay.
MemoHitOnlyTags ==
    [][ (InBuildLoop /\ Hash(builds[bi].Build) \in DOMAIN buildCache) =>
          LET service == builds[bi]
          IN  /\ Len(log') = Len(log) + 1
              /\ SubSeq(log', 1, Len(log)) = log
              /\ log'[Len(log')].args
                    = Docker(<< <<"tag">>, Tag(builds[FirstWithHash(bi)]), Tag(service) >>)
              /\ log'[Len(log')].who = service.Name
              /\ FirstWithHash(bi) < bi
              /\ buildCache' = buildCache
              /\ buildCache[Hash(service.Build)] = Tag(builds[FirstWithHash(bi)])
              /\ <<fs', staging', store', sink', files'>> = <<fs, staging, store, sink, files>>
      ]_vars

\* a service was tagged from the memo while the staging directory held a
\* restored cache, and no file was read for it
TaggedBesideCache ==
    /\ opts.CacheDir # Empty
    /\ staging # Empty
    /\ \E j \in BuildIndex :
          /\ FirstWithHash(j) < j
          /\ TagsOf(builds[j].Name) # {}
          /\ \A n \in 1..Len(fs) : fs[n].who # builds[j].Name

\* C19: in a run with a cache directory, no staging directory at its start
\* and no failure, at each build command the staging directory is absent or
\* holds the store's entry for the hash of the service being built.
StagingIsOwnCache ==
    opts.CacheDir # Empty /\ faults = 0 /\ fs # <<>> /\ fs[1].before = Empty =>
        \A n \in 1..Len(fs) :
            BuildIssued(n) => fs[n].after = Empty \/ fs[n].after = fs[n].entry

\* C20: Build does not crash: control never leaves it but by a return.
BuildNeverPanics == pc # "panic"


=============================================================================
